---- MODULE Spec2Model ----
(***************************************************************************)
(* State-machine model of Speed_observatory                                *)
(* (python/lsst/sims/speedObservatory/speed_observatory.py).               *)
(*                                                                         *)
(* Time.  The observatory clock self.mjd is a float in days.  The model    *)
(* keeps the clock as an integer number of seconds counted from the        *)
(* constructor's mjd_start, so every duration of the code that is given in *)
(* seconds (exptime, readtime, shutter_time, f_change_time, slew time) is  *)
(* added as it stands, and the code's durations in days or minutes are     *)
(* converted to seconds (0.25 day = 21600 s, cloud_step 15 min = 900 s).   *)
(*                                                                         *)
(* Shapes.  A request is a 1-element structured array, so a duration built  *)
(* from its exptime is a 1-element array and so is a clock it was added to; *)
(* mjd_array records whether self.mjd is such an array or a scalar.         *)
(*                                                                         *)
(* Optional values.  A Python value that may be None is a sequence of      *)
(* length 0 (None) or 1 (the value).                                       *)
(***************************************************************************)
EXTENDS Integers, Sequences, FiniteSets, TLC

\* ------------------------------------------------------------------------
\* Bounds of the model
\* ------------------------------------------------------------------------
\* number of calls that move the observatory (attempt_observe, set_mjd,
\* check_mjd, generate_sunsets) explored in one behaviour
MaxCalls == 3
\* largest exposure count a request carries
MaxNexp == 2
\* SpecNight: boundary tables hold instants 1..MaxT, at most MaxNights of them
MaxT == 5
MaxNights == 3

\* ------------------------------------------------------------------------
\* Program constants (constructor defaults and literals of the code)
\* ------------------------------------------------------------------------
mjd_start == 0
readtime == 2
f_change_time == 140
shutter_time == 1
mintime == 2
\* sun_limit=-13. (degrees); the model keeps altitudes in whole degrees
sun_limit == -13
\* cloud_limit=0.699; the model keeps cloud fractions in thousandths
cloud_limit == 699
\* cloud_step=15. minutes, stored by the constructor as days; here seconds
cloud_step == 15 * 60
\* the literal 0.25 (day) of check_mjd, in seconds
quarter_day == 21600

None == << >>
Some(v) == << v >>

\* ------------------------------------------------------------------------
\* State
\* ------------------------------------------------------------------------
VARIABLES
    mjd,               \* self.mjd, the Clock (seconds from mjd_start)
    night,             \* self.night, the Night Index
    ra,                \* self.ra   (None when parked)
    dec,               \* self.dec  (None when parked)
    filtername,        \* self.filtername (None when parked)
    status,            \* self.status, the StatusSnapshot (None or a record)
    setting_sun_mjds,  \* self.setting_sun_mjds, sorted sunset instants
    down_nights,       \* self.down_nights, the DowntimeCalendar
    sky_info,          \* self.sky.info: mjds, sunAlts of the sky timeline
    good_nights,       \* self.good_nights, computed lazily by check_mjd
    cloud_model,       \* the cloud time series behind cloud_model.get_cloud
    sun,               \* the solar altitude over time behind ephem / sky
    ncalls,            \* number of calls made so far (return_status apart)
    call,              \* the last call: its request, pre-state and outcome
    rebuilt,           \* generate_sunsets was run again after __init__
    mjd_array          \* self.mjd is a 1-element array, not a scalar

vars == << mjd, night, ra, dec, filtername, status, setting_sun_mjds,
           down_nights, sky_info, good_nights, cloud_model, sun, ncalls, call,
           rebuilt, mjd_array >>

env == << setting_sun_mjds, down_nights, sky_info, cloud_model, sun >>

\* ------------------------------------------------------------------------
\* Pure helpers
\* ------------------------------------------------------------------------
Abs(x) == IF x < 0 THEN -x ELSE x

SetMin(S) == CHOOSE x \in S : \A y \in S : x <= y

RECURSIVE searchsorted_right(_, _, _, _)
searchsorted_right(a, v, lo, hi) ==
    IF lo >= hi THEN lo
    ELSE LET mid == (lo + hi) \div 2
         IN IF a[mid + 1] <= v
            THEN searchsorted_right(a, v, mid + 1, hi)
            ELSE searchsorted_right(a, v, lo, mid)

\* np.searchsorted(a, v) with the default side='left': binary search for the
\* first index (0-based) whose element is >= v.
RECURSIVE searchsorted_from(_, _, _, _)
searchsorted_from(a, v, lo, hi) ==
    IF lo >= hi THEN lo
    ELSE LET mid == (lo + hi) \div 2
         IN IF a[mid + 1] < v
            THEN searchsorted_from(a, v, mid + 1, hi)
            ELSE searchsorted_from(a, v, lo, mid)

searchsorted(a, v) == searchsorted_from(a, v, 0, Len(a))

night_of_descending(table, m) ==
    Cardinality({ k \in DOMAIN table : table[k] > m })

\* Speed_observatory.mjd2night over an explicit boundary table
night_of(table, m) == searchsorted(table, m)

mjd2night(m) == night_of(setting_sun_mjds, m)

\* value of a step function given as a sequence of breakpoints [t, v],
\* sorted by t, the first at or before every instant asked for
RECURSIVE step_value(_, _, _)
step_value(bps, t, i) ==
    IF i = Len(bps) \/ bps[i + 1].t > t THEN bps[i].v
    ELSE step_value(bps, t, i + 1)

\* cloud_model.get_cloud(delta_t): cloud fraction (thousandths) delta_t
\* seconds after mjd_start
get_cloud(delta_t) == step_value(cloud_model, delta_t, 1)

\* solar altitude (degrees) at instant m: sun.compute(obs); sun.alt, and
\* sky.returnSunMoon(m)['sunAlt']
sun_alt(m) == step_value(sun, m - mjd_start, 1)

\* sky.returnMags(m): sky brightness (hundredths of a magnitude) at instant
\* m, the brighter the higher the Sun stands
returnMags(m) == 1800 - 10 * sun_alt(m)

\* _approx_RaDec2AltAz(ra, dec, lat, lon, mjd): the azimuth follows the hour
\* angle (the sky turns one degree in 240 s), the altitude the declination
\* and the hour angle.  RA, dec, alt, az in whole degrees.
RaDec2AltAz(r, d, m) ==
    LET ha == (((m - mjd_start) \div 240) + 360 - r) % 360
        hdist == IF ha > 180 THEN 360 - ha ELSE ha
    IN [alt |-> 60 + d - (hdist \div 6), az |-> ha]

\* Slewtime_pre.__call__(current_alt, current_az, alt, az): seconds to slew
slew_interp(calt, caz, alt, az) ==
    LET daz == Abs(az - caz)
    IN 3 + Abs(alt - calt) + (IF daz > 180 THEN 360 - daz ELSE daz)

\* np.in1d(sky.info['night'], down_nights, invert=True)
in1d_invert(nights, down) == [i \in 1..Len(nights) |-> nights[i] \notin down]


\* ------------------------------------------------------------------------
\* Environments the constructor may be given (external providers)
\* ------------------------------------------------------------------------
\* Solar altitude: dark at the start, the Sun reaches the limit at 300 s
\* (dawn), sets at 45000 s, is dark again after 48600 s (dusk) until the dawn
\* at 86500 s, sets at 131400 s and is back at the limit at 135000 s.
SunTracks ==
    { << [t |-> 0, v |-> -40], [t |-> 300, v |-> -13], [t |-> 301, v |-> 30],
         [t |-> 48600, v |-> -13], [t |-> 48601, v |-> -40],
         [t |-> 86500, v |-> 30],
         [t |-> 135000, v |-> -13], [t |-> 135001, v |-> -40] >> }

\* the instants at which the Sun sets (obs.previous_setting over the samples
\* of generate_sunsets, rounded and made unique), ascending
previous_settings == << -41400, 45000, 131400 >>

\* generate_sunsets run at clock m, up to the np.unique: the settings seen
\* from the samples that start at m, the last one before m and all later ones
unique_settings(m) ==
    LET before == searchsorted(previous_settings, m)
    IN SubSeq(previous_settings, IF before = 0 THEN 1 ELSE before,
              Len(previous_settings))

\* generate_sunsets run at clock m: the settings at or after m
generate_sunsets(m) ==
    LET setting == unique_settings(m)
        left == searchsorted(setting, m)
    IN SubSeq(setting, left + 1, Len(setting))

\* the table the constructor builds, at mjd_start
SunsetTables == { generate_sunsets(mjd_start) }

\* cloud fraction over time: clear; at the limit for the first 15 minutes;
\* clouding over half a minute after the start
CloudTracks ==
    { << [t |-> 0, v |-> 0] >>,
      << [t |-> 0, v |-> 699], [t |-> 900, v |-> 0] >>,
      << [t |-> 0, v |-> 0], [t |-> 30, v |-> 800], [t |-> 2000, v |-> 0] >> }

\* scheduled + unscheduled downtime, as night indices
DownCalendars == { {}, {0}, {1} }

\* the precomputed sky timeline (sky.info['mjds'], sky.info['sunAlts']), a
\* sparse sample of the Sun's track; the short one is exhausted after the
\* first ten minutes
SkyTimelines ==
    { [mjds    |-> << 0, 60, 600, 86480, 135000, 135100 >>,
       sunAlts |-> << -40, -40, 30, -40, -13, -40 >>],
      [mjds    |-> << 0, 60, 600 >>,
       sunAlts |-> << -40, -40, 30 >>] }

\* the filters the sky model and the seeing model have an entry for
sky_filters == { "u", "g", "r", "i", "z", "y" }

\* Requests handed to attempt_observe: the fields the code reads
Filters == { "r", "g" }
ExpTimes == { 30 }
\* a single exposure long enough to run from the start of the simulation over
\* the first sunset to the dusk that follows it
LongExpTimes == { 48600 }
LongRequests ==
    [RA : {0}, dec : {-30}, filter : {"r"}, exptime : LongExpTimes,
     nexp : {1}]
\* a request that names no filter
MissingFilterRequests ==
    [RA : {0}, dec : {-30}, filter : {""}, exptime : ExpTimes,
     nexp : {MaxNexp}]
\* a request that asks for no exposure at all
ZeroCountRequests ==
    [RA : {0}, dec : {-30}, filter : {"r"}, exptime : ExpTimes, nexp : {0}]
Requests ==
    [RA : {0}, dec : {-30, -35}, filter : Filters, exptime : ExpTimes,
     nexp : {MaxNexp}]
      \cup LongRequests \cup MissingFilterRequests \cup ZeroCountRequests

\* instants handed to set_mjd and to check_mjd by a caller: the start of the
\* simulation, and an instant of the second night
ClockInstants == { mjd_start, 50000 }
GateInstants == { 400 }

\* a request the spec calls valid
ValidRequest(obs) ==
    obs.nexp >= 1 /\ obs.exptime > 0 /\ obs.filter \in sky_filters

NoObs == [RA |-> 0, dec |-> 0, filter |-> "", exptime |-> 0, nexp |-> 0]

\* ------------------------------------------------------------------------
\* Methods of Speed_observatory
\* ------------------------------------------------------------------------
slew_time_always_interp(alt, az) ==
    LET cur == RaDec2AltAz(ra[1], dec[1], mjd)
    IN [time |-> slew_interp(cur.alt, cur.az, alt, az), interp |-> TRUE]

\* slew_time(alt, az): the time charged and whether slew_interp was called
slew_time(alt, az) ==
    LET cur == RaDec2AltAz(ra[1], dec[1], mjd)
    IN IF cur.alt = alt /\ cur.az = az
       THEN [time |-> mintime, interp |-> FALSE]
       ELSE [time |-> slew_interp(cur.alt, cur.az, alt, az), interp |-> TRUE]

return_status_sun_at_start(m, n, f, r, d) ==
    [mjd    |-> m,
     night  |-> n,
     clouds |-> get_cloud(m - mjd_start),
     filter |-> f,
     RA     |-> r,
     dec    |-> d,
     sunAlt |-> sun_alt(mjd_start)]

\* return_status: the snapshot built from the fields given (the method reads
\* self.mjd, self.night, self.filtername, self.ra, self.dec as they are at
\* the moment of the call)
return_status(m, n, f, r, d) ==
    [mjd    |-> m,
     night  |-> n,
     clouds |-> get_cloud(m - mjd_start),
     filter |-> f,
     RA     |-> r,
     dec    |-> d,
     sunAlt |-> sun_alt(m)]

cloud_retry_from_clock(m) == mjd + cloud_step

\* check_mjd, cloud branch: the instant to retry at
cloud_retry(m) == m + cloud_step

dark_retry_ignores_downtime(m, gn) ==
    LET good == { i \in 1..Len(sky_info.mjds) :
                    /\ sky_info.mjds[i] > m
                    /\ sky_info.sunAlts[i] <= sun_limit }
    IN IF good = {}
       THEN [mjd |-> m + quarter_day, why |-> "fallback"]
       ELSE [mjd |-> sky_info.mjds[SetMin(good)], why |-> "dark"]

dark_retry_not_later(m, gn) ==
    LET good == { i \in 1..Len(sky_info.mjds) :
                    /\ sky_info.sunAlts[i] <= sun_limit
                    /\ gn[i] }
    IN IF good = {}
       THEN [mjd |-> m + quarter_day, why |-> "fallback"]
       ELSE [mjd |-> sky_info.mjds[SetMin(good)], why |-> "dark"]

\* check_mjd, darkness/downtime branch: the instant to retry at, from the sky
\* timeline and the good_nights mask gn
dark_retry(m, gn) ==
    LET good == { i \in 1..Len(sky_info.mjds) :
                    /\ sky_info.mjds[i] > m
                    /\ sky_info.sunAlts[i] <= sun_limit
                    /\ gn[i] }
    IN IF good = {}
       THEN [mjd |-> m + quarter_day, why |-> "fallback"]
       ELSE [mjd |-> sky_info.mjds[SetMin(good)], why |-> "dark"]

check_mjd_dark_first(m) ==
    LET delta_t == mjd - mjd_start
        cloud == get_cloud(delta_t)
        sky_night == [i \in 1..Len(sky_info.mjds) |->
                         mjd2night(sky_info.mjds[i])]
        gn == IF good_nights = None
              THEN Some(in1d_invert(sky_night, down_nights))
              ELSE good_nights
    IN IF sun_alt(m) > sun_limit \/ mjd2night(m) \in down_nights
       THEN LET jump == dark_retry(m, gn[1])
            IN [ok |-> FALSE, mjd |-> jump.mjd, good_nights |-> gn,
                why |-> jump.why]
       ELSE IF cloud >= cloud_limit
            THEN [ok |-> FALSE, mjd |-> cloud_retry(m), good_nights |-> gn,
                  why |-> "cloud"]
            ELSE [ok |-> TRUE, mjd |-> m, good_nights |-> gn, why |-> "ok"]

\* check_mjd(m): result, the jump instant, the lazily filled good_nights
check_mjd(m) ==
    LET delta_t == mjd - mjd_start
        cloud == get_cloud(delta_t)
    IN IF cloud >= cloud_limit
       THEN [ok |-> FALSE, mjd |-> cloud_retry(m), good_nights |-> good_nights,
             why |-> "cloud"]
       ELSE
         LET sky_night == [i \in 1..Len(sky_info.mjds) |->
                             mjd2night(sky_info.mjds[i])]
             gn == IF good_nights = None
                   THEN Some(in1d_invert(sky_night, down_nights))
                   ELSE good_nights
         IN IF sun_alt(m) > sun_limit \/ mjd2night(m) \in down_nights
            THEN LET jump == dark_retry(m, gn[1])
                 IN [ok |-> FALSE, mjd |-> jump.mjd, good_nights |-> gn,
                     why |-> jump.why]
            ELSE [ok |-> TRUE, mjd |-> m, good_nights |-> gn, why |-> "ok"]

reposition_cost_adds_slew(obs, altaz) ==
    IF ra # None
    THEN LET s == slew_time(altaz.alt, altaz.az)
         IN IF filtername # Some(obs.filter)
            THEN [ft |-> f_change_time, st |-> s.time, interp |-> s.interp]
            ELSE [ft |-> 0, st |-> s.time, interp |-> s.interp]
    ELSE [ft |-> 0, st |-> 0, interp |-> FALSE]

\* attempt_observe: the filter-change time ft and the slew time st charged
reposition_cost(obs, altaz) ==
    IF ra # None
    THEN IF filtername # Some(obs.filter)
         THEN [ft |-> f_change_time, st |-> 0, interp |-> FALSE]
         ELSE LET s == slew_time(altaz.alt, altaz.az)
              IN [ft |-> 0, st |-> s.time, interp |-> s.interp]
    ELSE [ft |-> 0, st |-> 0, interp |-> FALSE]

visit_time_reads_all(obs, ft, st) ==
    ft + st + obs.exptime + obs.nexp * readtime + shutter_time * obs.nexp

\* attempt_observe: total_time of the visit (in seconds)
visit_time(obs, ft, st) ==
    LET rt == (obs.nexp - 1) * readtime
        shutter == shutter_time * obs.nexp
    IN ft + st + obs.exptime + rt + shutter

\* attempt_observe: the start of the exposure
exposure_start(ft, st) == mjd + (ft + st)

visit_end_at_start(start, total_time, ft, st) == start

\* attempt_observe: the clock at the end of the visit
visit_end(start, total_time, ft, st) == start + total_time - (ft + st)

update_status_always == TRUE

update_status_never == FALSE

\* attempt_observe: the status is recomputed when the telescope was parked
update_status == ra = None

committed_pointing_keeps_filter(obs) ==
    [ra |-> Some(obs.RA), dec |-> Some(obs.dec),
     filtername |-> IF filtername = None THEN Some(obs.filter) ELSE filtername]

\* attempt_observe: pointing and filter after a committed attempt
committed_pointing(obs) ==
    [ra |-> Some(obs.RA), dec |-> Some(obs.dec),
     filtername |-> Some(obs.filter)]

rejected_state_stale_night(jump_mjd) ==
    [mjd |-> jump_mjd, night |-> night, ra |-> None,
     dec |-> None, status |-> None, filtername |-> None]

rejected_state_keeps_dec(jump_mjd) ==
    [mjd |-> jump_mjd, night |-> mjd2night(jump_mjd), ra |-> None,
     dec |-> dec, status |-> None, filtername |-> None]

rejected_state_keeps_filter(jump_mjd) ==
    [mjd |-> jump_mjd, night |-> mjd2night(jump_mjd), ra |-> None,
     dec |-> None, status |-> None, filtername |-> filtername]

\* attempt_observe: the state after a rejected attempt
rejected_state(jump_mjd) ==
    [mjd |-> jump_mjd, night |-> mjd2night(jump_mjd), ra |-> None,
     dec |-> None, status |-> None, filtername |-> None]

PreState ==
    [mjd |-> mjd, night |-> night, ra |-> ra, dec |-> dec,
     filtername |-> filtername, status |-> status]

\* attempt_observe(observation_in)
attempt_observe(obs) ==
    LET altaz == RaDec2AltAz(obs.RA, obs.dec, mjd)
        cost == reposition_cost(obs, altaz)
        ft == cost.ft
        st == cost.st
        total_time == visit_time(obs, ft, st)
        chk == check_mjd(mjd + total_time)
        start == exposure_start(ft, st)
        start_night == mjd2night(start)
        new_status == IF update_status
                      THEN Some(return_status(start, start_night, filtername,
                                              Some(obs.RA), Some(obs.dec)))
                      ELSE status
        finish == visit_end(start, total_time, ft, st)
        parked == rejected_state(chk.mjd)
        pointing == committed_pointing(obs)
        info == [op |-> "attempt_observe", obs |-> obs, pre |-> PreState,
                 ft |-> ft, st |-> st, total_time |-> total_time,
                 gate |-> mjd + total_time, interp |-> cost.interp,
                 why |-> chk.why]
    IN /\ ncalls < MaxCalls
       /\ ncalls' = ncalls + 1
       /\ good_nights' = chk.good_nights
       /\ UNCHANGED << env, rebuilt >>
       /\ IF chk.ok
          THEN /\ ra' = pointing.ra
               /\ dec' = pointing.dec
               /\ filtername' = pointing.filtername
               /\ status' = new_status
               /\ IF obs.filter \notin sky_filters \/ new_status = None
                  THEN \* returnMags(...)[filtername] for a filter the sky
                       \* model does not know, or self.status[...] on None,
                       \* raises: the exposure start is committed, the rest
                       \* of the visit is not
                       /\ mjd' = start
                       /\ night' = start_night
                       /\ mjd_array' = (mjd_array \/ cost.interp)
                       /\ call' = [info EXCEPT !.why = "raised"] @@ [ret |-> None]
                  ELSE /\ mjd' = finish
                       /\ night' = mjd2night(finish)
                       /\ mjd_array' = TRUE
                       /\ call' = info @@
                            [ret |-> Some([RA |-> obs.RA, dec |-> obs.dec,
                                           filter |-> obs.filter,
                                           exptime |-> obs.exptime,
                                           nexp |-> obs.nexp,
                                           mjd |-> start,
                                           night |-> start_night,
                                           slewtime |-> ft + st,
                                           alt |-> altaz.alt,
                                           az |-> altaz.az,
                                           skybrightness |-> returnMags(start),
                                           clouds |-> new_status[1].clouds,
                                           sunAlt |-> new_status[1].sunAlt])]
          ELSE /\ mjd' = parked.mjd
               /\ night' = parked.night
               \* the dark jump is an element of sky.info['mjds'], the cloud
               \* step and the fallback are added to the gated instant
               /\ mjd_array' = (chk.why # "dark")
               /\ ra' = parked.ra
               /\ dec' = parked.dec
               /\ status' = parked.status
               /\ filtername' = parked.filtername
               /\ call' = info @@ [ret |-> None]

AttemptObserve == \E obs \in Requests : attempt_observe(obs)

\* a caller asks for the status (the scheduler does so between visits)
ReturnStatus ==
    /\ status' = Some(return_status(mjd, night, filtername, ra, dec))
    /\ call' = [op |-> "return_status", obs |-> NoObs, pre |-> PreState,
                ft |-> 0, st |-> 0, total_time |-> 0, gate |-> mjd,
                interp |-> FALSE, why |-> "", ret |-> None]
    /\ UNCHANGED << mjd, night, ra, dec, filtername, good_nights, ncalls >>
    /\ UNCHANGED << env, rebuilt, mjd_array >>

\* a caller runs the gate on an instant of its own
CheckMjd ==
    \E m \in GateInstants :
        LET chk == check_mjd(m)
        IN /\ ncalls < MaxCalls
           /\ ncalls' = ncalls + 1
           /\ good_nights' = chk.good_nights
           /\ call' = [op |-> "check_mjd", obs |-> NoObs, pre |-> PreState,
                       ft |-> 0, st |-> 0, total_time |-> 0, gate |-> m,
                       interp |-> FALSE, why |-> chk.why,
                       ret |-> Some([ok |-> chk.ok, mjd |-> chk.mjd])]
           /\ UNCHANGED << mjd, night, ra, dec, filtername, status >>
           /\ UNCHANGED << env, rebuilt, mjd_array >>

\* Speed_observatory.set_mjd
set_mjd(m) ==
    /\ mjd' = m
    /\ night' = mjd2night(m)

\* a caller moves the clock
SetMjdTo ==
    \E m \in ClockInstants :
        /\ ncalls < MaxCalls
        /\ ncalls' = ncalls + 1
        /\ set_mjd(m)
        /\ mjd_array' = FALSE
        /\ call' = [op |-> "set_mjd", obs |-> NoObs, pre |-> PreState,
                    ft |-> 0, st |-> 0, total_time |-> 0, gate |-> m,
                    interp |-> FALSE, why |-> "", ret |-> None]
        /\ UNCHANGED << ra, dec, filtername, status, good_nights >>
        /\ UNCHANGED << env, rebuilt >>

\* the outcomes of the slice self.setting_sun_mjds[left:] of generate_sunsets
\* when left is a 1-element array: numpy from 1.12 on refuses the index,
\* older numpy takes its element
IndexRules == { "scalar_only", "one_element" }

\* a caller rebuilds the sunset table: it is built from the clock as it is,
\* and self.night is left as it was.  With the clock a 1-element array the
\* index left is one too, and where numpy refuses it the method raises with
\* the untrimmed table stored.
GenerateSunsets ==
    \E rule \in IndexRules :
        LET raises == mjd_array /\ rule = "scalar_only"
        IN /\ ncalls < MaxCalls
           /\ ncalls' = ncalls + 1
           /\ setting_sun_mjds' = IF raises THEN unique_settings(mjd)
                                   ELSE generate_sunsets(mjd)
           /\ rebuilt' = TRUE
           /\ call' = [op |-> "generate_sunsets", obs |-> NoObs,
                       pre |-> PreState, ft |-> 0, st |-> 0, total_time |-> 0,
                       gate |-> mjd, interp |-> FALSE,
                       why |-> IF raises THEN "raised" ELSE "",
                       ret |-> None]
           /\ UNCHANGED << mjd, night, ra, dec, filtername, status,
                           good_nights, mjd_array >>
           /\ UNCHANGED << down_nights, sky_info, cloud_model, sun >>

\* Speed_observatory.__init__
Init ==
    /\ mjd = mjd_start
    /\ ra = None
    /\ dec = None
    /\ filtername = None
    /\ status = None
    /\ setting_sun_mjds \in SunsetTables
    /\ night = mjd2night(mjd_start)
    /\ down_nights \in DownCalendars
    /\ sky_info \in SkyTimelines
    /\ good_nights = None
    /\ cloud_model \in CloudTracks
    /\ sun \in SunTracks
    /\ ncalls = 0
    /\ rebuilt = FALSE
    /\ mjd_array = FALSE
    /\ call = [op |-> "init", obs |-> NoObs,
               pre |-> [mjd |-> mjd_start, night |-> 0, ra |-> None,
                        dec |-> None, filtername |-> None, status |-> None],
               ft |-> 0, st |-> 0, total_time |-> 0, gate |-> mjd_start,
               interp |-> FALSE, why |-> "", ret |-> None]

Next ==
    \/ AttemptObserve
    \/ ReturnStatus
    \/ CheckMjd
    \/ SetMjdTo
    \/ GenerateSunsets

Spec == Init /\ [][Next]_vars

\* ------------------------------------------------------------------------
\* Outcomes of the last call
\* ------------------------------------------------------------------------
Attempted == call.op = "attempt_observe"
Committed == Attempted /\ call.ret # None
Rejected == Attempted /\ call.ret = None /\ call.why # "raised"
Tracking(s) == s.ra # None


\* ------------------------------------------------------------------------
\* The night index as a function: set_mjd applied to arbitrary instants over
\* arbitrary sorted boundary tables.  Boundaries sit on even instants, so
\* that the odd instants are the instants just below and just above them.
\* ------------------------------------------------------------------------
Boundaries == { 2 * i : i \in 1..MaxT }

SortedTables ==
    { t \in UNION { [1..n -> Boundaries] : n \in 0..MaxNights } :
        \A i \in DOMAIN t : \A j \in DOMAIN t : i < j => t[i] < t[j] }

\* set_mjd on an instant of the bounded time line
SetMjd ==
    \E m \in 1..(2 * MaxT + 1) :
        /\ set_mjd(m)
        /\ call' = [call EXCEPT !.op = "set_mjd", !.gate = m]
        /\ mjd_array' = FALSE
        /\ UNCHANGED << ra, dec, filtername, status, good_nights, ncalls >>
        /\ UNCHANGED << env, rebuilt >>

InitNight ==
    /\ mjd = mjd_start
    /\ ra = None
    /\ dec = None
    /\ filtername = None
    /\ status = None
    /\ setting_sun_mjds \in SortedTables
    /\ night = mjd2night(mjd_start)
    /\ down_nights = {}
    /\ sky_info = [mjds |-> << >>, sunAlts |-> << >>]
    /\ good_nights = None
    /\ cloud_model = << [t |-> 0, v |-> 0] >>
    /\ sun = << [t |-> 0, v |-> -40] >>
    /\ ncalls = 0
    /\ rebuilt = FALSE
    /\ mjd_array = FALSE
    /\ call = [op |-> "init", obs |-> NoObs,
               pre |-> [mjd |-> mjd_start, night |-> 0, ra |-> None,
                        dec |-> None, filtername |-> None, status |-> None],
               ft |-> 0, st |-> 0, total_time |-> 0, gate |-> mjd_start,
               interp |-> FALSE, why |-> "", ret |-> None]

NextNight == SetMjd

SpecNight == InitNight /\ [][NextNight]_vars

\* number of boundaries of the table strictly less than m
BoundariesBelow(m) ==
    Cardinality({ k \in DOMAIN setting_sun_mjds : setting_sun_mjds[k] < m })

\* the visit duration of the spec, from the charged times of the last call
ChargedDuration ==
    call.ft + call.st + call.obs.exptime
      + (call.obs.nexp - 1) * readtime + call.obs.nexp * shutter_time

\* ------------------------------------------------------------------------
\* Claims
\* ------------------------------------------------------------------------

\* C1: a successful attempt_observe on a valid request leaves the Clock
\* strictly greater than the Clock before the call, parked or tracking.
C1_CommitAdvancesClock ==
    (Committed /\ ValidRequest(call.obs)) => mjd > call.pre.mjd

C1_Witness ==
    /\ Committed /\ ValidRequest(call.obs)
    /\ Tracking(call.pre)
    /\ mjd > call.pre.mjd

\* C2: a rejected attempt leaves RA, Dec, the filter and the status snapshot
\* absent, whatever they were before the call.
C2_RejectParks ==
    Rejected => (ra = None /\ dec = None /\ filtername = None /\ status = None)

C2_Witness ==
    /\ Rejected
    /\ Tracking(call.pre) /\ call.pre.filtername # None
    /\ call.pre.status # None
    /\ ra = None /\ dec = None /\ filtername = None /\ status = None

\* C3 as stated: when the cloud fraction at the request instant is at or
\* above cloud_limit the attempt returns nothing and the Clock is the Clock
\* before the call plus exactly cloud_step.
C3_Original ==
    (Attempted /\ get_cloud(call.pre.mjd - mjd_start) >= cloud_limit)
        => (call.ret = None /\ mjd = call.pre.mjd + cloud_step)

\* C3 as amended: when the cloud fraction at the Clock of the request is at
\* or above cloud_limit the attempt returns nothing and the Clock is the
\* Clock before the call plus the visit's total duration plus cloud_step.
C3_CloudRetryAfterVisitEnd ==
    (Attempted /\ get_cloud(call.pre.mjd - mjd_start) >= cloud_limit)
        => (/\ call.ret = None
            /\ mjd = call.pre.mjd + ChargedDuration + cloud_step)

C3_Witness ==
    /\ Rejected
    /\ get_cloud(call.pre.mjd - mjd_start) >= cloud_limit
    /\ ChargedDuration > 0
    /\ mjd = call.pre.mjd + ChargedDuration + cloud_step

\* the instants of the sky timeline later than m, flagged dark and in a
\* night outside the DowntimeCalendar
DarkCandidates(m) ==
    { sky_info.mjds[i] : i \in
        { j \in DOMAIN sky_info.mjds :
            /\ sky_info.mjds[j] > m
            /\ sky_info.sunAlts[j] <= sun_limit
            /\ BoundariesBelow(sky_info.mjds[j]) \notin down_nights } }

GateDarkOrDown ==
    /\ Attempted
    /\ get_cloud(call.pre.mjd - mjd_start) < cloud_limit
    /\ \/ sun_alt(call.gate) > sun_limit
       \/ BoundariesBelow(call.gate) \in down_nights

\* C4: when the cloud check passes and the gated instant has the Sun above
\* sun_limit or lies in a down night, the attempt is rejected and the Clock
\* is the earliest timeline instant later than the gated instant that is
\* dark and not in a down night, or the gated instant plus a quarter of a
\* day when the timeline has none.  Nights are counted in the sunset table
\* built at initialization.
C4_DarkRetry ==
    (~rebuilt /\ GateDarkOrDown) =>
        /\ call.ret = None
        /\ call.gate = call.pre.mjd + ChargedDuration
        /\ IF DarkCandidates(call.gate) = {}
           THEN mjd = call.gate + quarter_day
           ELSE /\ mjd \in DarkCandidates(call.gate)
                /\ \A c \in DarkCandidates(call.gate) : mjd <= c

\* a timeline instant that is later and dark, but in a down night, is passed
\* over for a later one
C4_Witness ==
    /\ ~rebuilt
    /\ GateDarkOrDown
    /\ mjd \in DarkCandidates(call.gate)
    /\ \E j \in DOMAIN sky_info.mjds :
          /\ sky_info.mjds[j] > call.gate
          /\ sky_info.mjds[j] < mjd
          /\ sky_info.sunAlts[j] <= sun_limit

\* C5: an invalid request (exposure count below 1, or no filter) is rejected
\* and leaves Clock, Night Index, Pointing, ActiveFilter and StatusSnapshot
\* as they were.
C5_InvalidRequestLeavesState ==
    (Attempted /\ ~ValidRequest(call.obs))
        => (call.ret = None /\ PreState = call.pre)

\* C6: the night of an instant is the number of boundaries strictly below
\* it: k-1 just below and at the k-th boundary, k just above it (k counted
\* from 1), 0 before the first boundary, the table length after the last.
C6_NightCountsBoundariesBelow ==
    /\ night = BoundariesBelow(mjd)
    /\ \A k \in DOMAIN setting_sun_mjds :
          /\ mjd2night(setting_sun_mjds[k] - 1) = k - 1
          /\ mjd2night(setting_sun_mjds[k]) = k - 1
          /\ mjd2night(setting_sun_mjds[k] + 1) = k
    /\ mjd2night(1) = 0
    /\ mjd2night(2 * MaxT + 1) = Len(setting_sun_mjds)

C6_Witness ==
    /\ call.op = "set_mjd"
    /\ Len(setting_sun_mjds) >= 2
    /\ mjd = setting_sun_mjds[2]
    /\ night = 1

\* C7: over attempt_observe calls with valid requests, committed or
\* rejected, the Night Index never decreases (the sunset table being the
\* one built at initialization).
C7_NightNeverDecreases ==
    (~rebuilt /\ Attempted /\ ValidRequest(call.obs))
        => night >= call.pre.night

C7_Witness ==
    /\ ~rebuilt
    /\ Attempted /\ ValidRequest(call.obs)
    /\ call.pre.night >= 1
    /\ night > call.pre.night

\* the request of the last call asks for the pointing and filter held before
SamePointingAndFilter ==
    /\ Attempted
    /\ Tracking(call.pre)
    /\ call.pre.ra = Some(call.obs.RA)
    /\ call.pre.dec = Some(call.obs.dec)
    /\ call.pre.filtername = Some(call.obs.filter)

\* C8: tracking, with the request's target equal to the Pointing and its
\* filter equal to the ActiveFilter, the slew time charged is the minimum
\* slew time and the interpolator is not consulted.
C8_NoMotionChargesMintime ==
    SamePointingAndFilter => (call.st = mintime /\ ~call.interp /\ call.ft = 0)

C8_Witness ==
    /\ SamePointingAndFilter
    /\ Committed
    /\ call.pre.mjd > 0
    /\ call.ret[1].slewtime = mintime

\* the slew-model value between the pointing before the call and the target
SlewModelValue ==
    LET cur == RaDec2AltAz(call.pre.ra[1], call.pre.dec[1], call.pre.mjd)
        tgt == RaDec2AltAz(call.obs.RA, call.obs.dec, call.pre.mjd)
    IN IF cur = tgt THEN mintime
       ELSE slew_interp(cur.alt, cur.az, tgt.alt, tgt.az)

\* C9: the record's slewtime is 0 when parked before the call, the filter
\* change time (with no slew) when tracking with another filter, and the
\* slew-model value when tracking with the same filter.
C9_RepositioningCharged ==
    Committed =>
        /\ call.ret[1].slewtime = call.ft + call.st
        /\ IF ~Tracking(call.pre)
           THEN call.ret[1].slewtime = 0
           ELSE IF call.pre.filtername # Some(call.obs.filter)
                THEN call.ft = f_change_time /\ call.st = 0
                     /\ call.ret[1].slewtime = f_change_time
                ELSE call.ft = 0 /\ call.ret[1].slewtime = SlewModelValue

C9_Witness ==
    /\ Committed
    /\ Tracking(call.pre)
    /\ call.pre.filtername # Some(call.obs.filter)
    /\ call.pre.dec # Some(call.obs.dec)
    /\ call.ret[1].slewtime = f_change_time

\* C10: on a commit the record's mjd is the Clock before plus ft + st, and
\* the Clock after is the Clock before plus ft + st + exptime +
\* (nexp - 1) * readtime + nexp * shutter_time, the instant given to the gate.
C10_CommitTimes ==
    Committed =>
        /\ call.ret[1].mjd = call.pre.mjd + call.ft + call.st
        /\ mjd = call.pre.mjd + ChargedDuration
        /\ mjd = call.gate

C10_Witness ==
    /\ Committed
    /\ call.ft + call.st > 0
    /\ call.obs.nexp = 2
    /\ call.ret[1].mjd > call.pre.mjd
    /\ mjd = call.ret[1].mjd + 34

\* C11 as stated: every environment field of a returned record is the value
\* of that quantity at the record's mjd, the exposure start.
C11_Original ==
    Committed =>
        /\ call.ret[1].skybrightness = returnMags(call.ret[1].mjd)
        /\ call.ret[1].clouds = get_cloud(call.ret[1].mjd - mjd_start)
        /\ call.ret[1].sunAlt = sun_alt(call.ret[1].mjd)
        /\ [alt |-> call.ret[1].alt, az |-> call.ret[1].az]
             = RaDec2AltAz(call.obs.RA, call.obs.dec, call.ret[1].mjd)

\* C11 as amended: the record's sky brightness is the value at the record's
\* mjd; its alt/az are those of the target at the Clock before the call; its
\* cloud fraction and sun altitude are the values at the record's mjd when
\* the telescope was parked before the call, and otherwise those of the
\* status snapshot held before the call.
C11_RecordEnvironment ==
    Committed =>
        /\ call.ret[1].skybrightness = returnMags(call.ret[1].mjd)
        /\ [alt |-> call.ret[1].alt, az |-> call.ret[1].az]
             = RaDec2AltAz(call.obs.RA, call.obs.dec, call.pre.mjd)
        /\ IF ~Tracking(call.pre)
           THEN /\ call.ret[1].clouds = get_cloud(call.ret[1].mjd - mjd_start)
                /\ call.ret[1].sunAlt = sun_alt(call.ret[1].mjd)
           ELSE /\ call.ret[1].clouds = call.pre.status[1].clouds
                /\ call.ret[1].sunAlt = call.pre.status[1].sunAlt

\* a visit made while tracking reports a cloud fraction that is no longer
\* the one of its exposure start
C11_Witness ==
    /\ Committed
    /\ Tracking(call.pre)
    /\ call.ret[1].clouds = call.pre.status[1].clouds
    /\ call.ret[1].clouds # get_cloud(call.ret[1].mjd - mjd_start)

\* C12: over attempt_observe calls with valid requests the Clock never
\* decreases, and every rejected attempt leaves it strictly later.
C12_ClockMovesForward ==
    (Attempted /\ ValidRequest(call.obs)) =>
        /\ mjd >= call.pre.mjd
        /\ Rejected => mjd > call.pre.mjd

C12_Witness ==
    /\ Rejected /\ ValidRequest(call.obs)
    /\ call.why = "fallback"
    /\ call.pre.mjd > mjd_start
    /\ mjd > call.pre.mjd

\* C13: the cloud check of the gate uses the cloud fraction at the instant
\* given to the gate (the provisional end of the visit), not the one at the
\* Clock: an attempt is turned away for clouds exactly when the cloud
\* fraction at the gated instant is at or above cloud_limit.
C13_CloudCheckedAtGate ==
    Attempted =>
        ((get_cloud(call.gate - mjd_start) >= cloud_limit)
            <=> (call.ret = None /\ mjd = call.gate + cloud_step))

\* the outcome of the cloud check of the last attempt, as check_mjd makes it
CloudCheckFailed == get_cloud(call.pre.mjd - mjd_start) >= cloud_limit

\* the darkness/downtime condition at the gated instant
DarkCheckFailed ==
    \/ sun_alt(call.gate) > sun_limit
    \/ BoundariesBelow(call.gate) \in down_nights

\* C14: the gate checks clouds first and short-circuits: when the cloud
\* check fails the retry instant is the gated instant plus cloud_step even
\* if the Sun is up or the night is down, and the dark-window jump or the
\* quarter-day fallback is used only when the cloud check passed.
C14_CloudBeforeDarkness ==
    Attempted =>
        /\ CloudCheckFailed =>
              (call.ret = None /\ mjd = call.gate + cloud_step)
        /\ (Rejected /\ mjd # call.gate + cloud_step) =>
              (~CloudCheckFailed /\ DarkCheckFailed)

C14_Witness ==
    /\ Rejected
    /\ CloudCheckFailed
    /\ sun_alt(call.gate) > sun_limit
    /\ DarkCandidates(call.gate) # {}
    /\ mjd = call.gate + cloud_step

\* C15: a successful attempt recomputes the status snapshot if and only if
\* the telescope was parked before the call; a successful attempt made while
\* tracking leaves the snapshot exactly as it was.
C15_StatusRefreshedOnlyFromParked ==
    Committed =>
        IF Tracking(call.pre)
        THEN status = call.pre.status
        ELSE /\ status # None
             /\ status[1].mjd = call.ret[1].mjd
             /\ status[1].clouds = get_cloud(call.ret[1].mjd - mjd_start)
             /\ status[1].sunAlt = sun_alt(call.ret[1].mjd)
             /\ status[1].RA = Some(call.obs.RA)
             /\ status[1].dec = Some(call.obs.dec)

\* a second consecutive visit keeps the snapshot of an earlier instant
C15_Witness ==
    /\ Committed
    /\ Tracking(call.pre)
    /\ status = call.pre.status
    /\ status[1].mjd < call.pre.mjd
    /\ status[1].mjd < call.ret[1].mjd

\* C16: the snapshot recomputed by a parked-to-tracking commit is taken
\* after Pointing and ActiveFilter were updated and at the exposure start:
\* right after the call its RA/dec are the Pointing, its filter is the
\* ActiveFilter and its mjd/night are the record's.
C16_SnapshotAfterPointingAndFilter ==
    (Committed /\ ~Tracking(call.pre)) =>
        /\ status # None
        /\ status[1].RA = ra
        /\ status[1].dec = dec
        /\ status[1].filter = filtername
        /\ status[1].mjd = call.ret[1].mjd
        /\ status[1].night = call.ret[1].night

\* C17: in every state reached by attempt_observe and return_status calls
\* (and by set_mjd and check_mjd calls as well) the stored Night Index is the
\* night of the Clock, and the night of every returned record is the night
\* of the record's mjd.
C17_NightConsistentWithClock ==
    ~rebuilt =>
        /\ night = BoundariesBelow(mjd)
        /\ Committed => call.ret[1].night = BoundariesBelow(call.ret[1].mjd)

\* a rejection that carries the Clock over a sunset
C17_Witness ==
    /\ ~rebuilt
    /\ Rejected
    /\ BoundariesBelow(mjd) > call.pre.night
    /\ night = BoundariesBelow(mjd)

\* C18: between calls Pointing and ActiveFilter are in lock-step: RA is
\* absent iff Dec is absent iff the filter is none.
C18_PointingFilterLockStep ==
    /\ (ra = None) <=> (dec = None)
    /\ (dec = None) <=> (filtername = None)

\* pointing and filter are there again after the telescope had been parked
C18_Witness ==
    /\ Committed
    /\ ~Tracking(call.pre)
    /\ call.pre.mjd > mjd_start
    /\ ra # None /\ dec # None /\ filtername # None

\* C19: after every attempt_observe that returns a record the Pointing is
\* the request's (RA, Dec) and the ActiveFilter the request's filter;
\* return_status and the gate check (and every other call that is not an
\* attempt_observe) change neither Pointing nor ActiveFilter, and an
\* attempt the gate turns away clears them.
C19_PointingSetOnlyByAttempt ==
    /\ Committed =>
          /\ ra = Some(call.obs.RA)
          /\ dec = Some(call.obs.dec)
          /\ filtername = Some(call.obs.filter)
    /\ ~Attempted =>
          /\ ra = call.pre.ra
          /\ dec = call.pre.dec
          /\ filtername = call.pre.filtername
    /\ Rejected => (ra = None /\ dec = None /\ filtername = None)

\* a visit that changes both the target and the filter of a tracking telescope
C19_Witness ==
    /\ Committed
    /\ Tracking(call.pre)
    /\ call.pre.dec # Some(call.obs.dec)
    /\ call.pre.filtername # Some(call.obs.filter)
    /\ dec = Some(call.obs.dec)
    /\ filtername = Some(call.obs.filter)

\* C20: in every state reached by attempt_observe and return_status calls a
\* tracking telescope has a status snapshot, so a visit made while tracking
\* never reads an absent snapshot.
C20_TrackingHasStatus ==
    /\ ra # None => status # None
    /\ (Attempted /\ Tracking(call.pre)) => call.pre.status # None

C20_Witness ==
    /\ Committed
    /\ Tracking(call.pre)
    /\ call.pre.status # None
    /\ call.pre.status[1].filter = None
    /\ ra # None /\ status # None

\* C21: no attempt_observe returns a record whose night index, the night of
\* its exposure start, is in the DowntimeCalendar, whatever the exposure
\* duration and wherever the sunsets fall between exposure start and the
\* gated end of the visit.
C21_NoRecordInDownNight ==
    Committed =>
        /\ call.ret[1].night \notin down_nights
        /\ BoundariesBelow(call.ret[1].mjd) \notin down_nights

====
